---- MODULE Spec2Model ----
(***************************************************************************)
(* The thought-chain session of streamlit_app.py (ThoughtData and the      *)
(* script render_main_functionality runs on every interaction) and the     *)
(* time-bounded listing cache of local_utils/ui_lib.py.                    *)
(*                                                                         *)
(* One action of the session part is one run of the Streamlit script: the  *)
(* script runs from its first line to its last line, to st.stop(), to      *)
(* st.experimental_rerun() or to the first exception that escapes it.      *)
(* The session object lives in the framework's session state and keeps     *)
(* every field assigned to it from one run to the next.                    *)
(*                                                                         *)
(* main() draws the knowledge and recent-thoughts tabs before the main     *)
(* tab; render_recent_thoughts reads new_thought.rationale of the stored   *)
(* records and writes nothing. Every record the script stores has its      *)
(* kickoff set (it is first written at line 149), so that read succeeds    *)
(* and the main tab is always reached.                                     *)
(***************************************************************************)
EXTENDS Integers, Sequences, FiniteSets, TLC

\* ------------------------------------------------------------------ bounds
MaxIds == 2         \* session ids that can ever be bound
MaxSteps == 2       \* steps the engine returns in one behaviour
MaxTime == 5        \* seconds the cache's clock runs for
MaxThoughts == 2    \* thoughts ever written to the memory table

\* The freshness window: @st.cache_data(ttl=timedelta(seconds=5)).
TTL == 5

Ids == 1..MaxIds

\* The arguments list_recent_thoughts is called with.
Nums == {1, 2}

\* The selectbox of the "New thought" form.
Models == {"gpt-3.5-turbo", "gpt-4"}

\* What Brain.get_new_thought_type can return (StartNewThoughtResponse).
Kickoffs ==
  { [response_type |-> "REFLECT", rationale |-> "R1"],
    [response_type |-> "REFLECT", rationale |-> "R2"] }

\* The response_type of what Brain.run_reflect_thought can return.
StepKinds == {"reflect", "act", "final"}

\* The step kind that ends a chain.
TerminalKinds == {"final"}

VARIABLES
  session_data,     \* the ThoughtData of the browser session
  store,            \* settings.session_data: id -> persisted record
  used_ids,         \* ids bound so far (a generated id is never one of them)
  rerun_pending,    \* st.experimental_rerun() was requested, the run is due
  action,           \* the handler that ran last
  engine_ops,       \* the Brain calls the last run made, with their outcome
  store_ops,        \* the persist_session_state calls of the last run
  resumed,          \* session_data was loaded from the store
  base_steps,       \* this_thought_responses when the session was bound
  step_results,     \* what run_reflect_thought returned since, in call order
  n_steps,          \* steps the engine has returned so far, to all sessions
  now,              \* the cache's clock, in seconds
  incomplete,       \* memory table: ids of the incomplete thoughts
  completed,        \* memory table: completed ids, most recent first
  cache,            \* st.cache_data: key -> <<>> or <<entry>>
  ret,              \* what the listing call of the last action returned
  queried,          \* the listing call of the last action read the table
  call_key          \* the function and arguments of that call

sessVars ==
  <<session_data, store, used_ids, rerun_pending, engine_ops, store_ops,
    resumed, base_steps, step_results, n_steps>>
cacheVars == <<now, incomplete, completed, cache, ret, queried, call_key>>
vars == <<sessVars, cacheVars, action>>

\* ------------------------------------------------------------- ThoughtData

\* ThoughtData(): the field defaults, with the id init_session gives it.
Fresh(id) ==
  [ session_id |-> id,
    thought_model |-> "",
    trigger_new_thought |-> FALSE,
    new_thought |-> <<>>,
    this_thought_responses |-> <<>>,
    current_thought_index |-> 0,
    thought_complete |-> FALSE,
    thought_had_error |-> FALSE,
    thought_status_msgs |-> <<>> ]

\* A faulty add_reflect_thought_response: the response goes to the front.
BadPrependResponse(s, response) ==
  [s EXCEPT !.this_thought_responses = <<response>> \o @]

\* ThoughtData.add_reflect_thought_response (save_to_session_state keeps the
\* object in the session state, where it already lives).
add_reflect_thought_response(s, response) ==
  [s EXCEPT !.this_thought_responses = Append(@, response)]

\* ThoughtData.add_thought_status_msg
add_thought_status_msg(s, msg) ==
  [s EXCEPT !.thought_status_msgs = Append(@, msg)]

\* ThoughtData.get_thought_status
get_thought_status(s) ==
  IF s.thought_had_error THEN "error"
  ELSE IF s.thought_complete THEN "complete"
  ELSE "running"

\* A faulty trigger_chain_of_thought: the chosen model is not recorded.
BadTriggerDropsModel(s, model) ==
  [s EXCEPT !.trigger_new_thought = TRUE]

\* trigger_chain_of_thought
trigger_chain_of_thought(s, model) ==
  [s EXCEPT !.trigger_new_thought = TRUE, !.thought_model = model]

\* `if not session_data.trigger_new_thought:` the awaiting page
AwaitingTrigger(s) == ~s.trigger_new_thought

\* A faulty guard: the initiation messages are logged on every run.
BadAlwaysInitMsgs(s) == TRUE

\* `if not session_data.thought_status_msgs:`
NeedsInitMsgs(s) == s.thought_status_msgs = <<>>

\* A faulty guard: every run classifies.
BadAlwaysClassify(s) == TRUE

\* `if not session_data.new_thought:`
NeedsClassify(s) == s.new_thought = <<>>

\* The f-strings of the status log.
MsgInitiated(s) == <<"Thought initiated", s.session_id>>
MsgModel(s) == <<"Thought Model", s.thought_model>>
MsgType(s) == <<"Thought Type", s.new_thought[1].response_type>>
MsgAction(response) == <<"Action", response>>

\* ------------------------------------------------------- one script run

\* The running script: the session, the store, the calls made so far, and
\* whether an exception has ended the run.
Ctx(s, st) ==
  [s |-> s, store |-> st, eng |-> <<>>, sto |-> <<>>, res |-> <<>>,
   halted |-> FALSE]

\* BaseSessionData.persist_session_state: the whole record is written under
\* the session's id; a failed write raises and leaves the store as it was.
persist_session_state(c, p) ==
  IF p = "ok"
  THEN [c EXCEPT !.store = [i \in DOMAIN c.store \cup {c.s.session_id} |->
                              IF i = c.s.session_id THEN c.s ELSE c.store[i]],
                 !.sto = Append(@, "ok")]
  ELSE [c EXCEPT !.sto = Append(@, "err"), !.halted = TRUE]

\* Lines 131-133: the two initiation messages.
PhaseInitMsgs(c) ==
  IF NeedsInitMsgs(c.s)
  THEN [c EXCEPT !.s = add_thought_status_msg(
                         add_thought_status_msg(c.s, MsgInitiated(c.s)),
                         MsgModel(c.s))]
  ELSE c

\* Lines 145-149: classify, log the type, persist. co is the engine's
\* outcome (<<>> when the call raises, <<kickoff>> when it returns), p the
\* outcome of the write.
PhaseClassify(c, co, p) ==
  IF c.halted \/ ~NeedsClassify(c.s) THEN c
  ELSE IF co = <<>>
  THEN [c EXCEPT !.eng = Append(@, "classify_err"), !.halted = TRUE]
  ELSE LET s1 == [c.s EXCEPT !.new_thought = co]
           s2 == add_thought_status_msg(s1, MsgType(s1))
       IN persist_session_state(
            [c EXCEPT !.s = s2, !.eng = Append(@, "classify_ok")], p)

\* Lines 155-162: the continue button. so is the engine's outcome (<<>> when
\* the call raises, <<kind>> when it returns), p the outcome of the write.
PhaseContinue(c, click, so, p) ==
  IF c.halted \/ ~click THEN c
  ELSE IF so = <<>>
  THEN [c EXCEPT !.eng = Append(@, "step_err"), !.halted = TRUE]
  ELSE LET s1 == add_reflect_thought_response(c.s, so[1])
           s2 == add_thought_status_msg(s1, MsgAction(so[1]))
       IN persist_session_state(
            [c EXCEPT !.s = s2, !.eng = Append(@, "step_ok"),
                      !.res = Append(@, so[1])], p)

\* render_main_functionality past the awaiting page (lines 114-188). The
\* display of the chain (lines 165-188) writes no field.
RunThought(s, st, click, co, p1, so, p2) ==
  PhaseContinue(PhaseClassify(PhaseInitMsgs(Ctx(s, st)), co, p1),
                click, so, p2)

ClassifyOutcomes == {<<>>} \cup {<<k>> : k \in Kickoffs}
StepOutcomes == {<<>>} \cup {<<k>> : k \in StepKinds}
WriteOutcomes == {"ok", "err"}

\* The engine's outcomes for a step call: once it has returned MaxSteps
\* steps, its calls fail.
StepOutcomesNow == IF n_steps < MaxSteps THEN StepOutcomes ELSE {<<>>}

\* The outcomes a run can meet: those of the calls it gets to.
ClassifyOutcomesOf(s) ==
  IF NeedsClassify(s) THEN ClassifyOutcomes ELSE {<<>>}
WriteOutcomesAfter(o) == IF o = <<>> THEN {"err"} ELSE WriteOutcomes

Commit(c, act) ==
  /\ session_data' = c.s
  /\ store' = c.store
  /\ engine_ops' = c.eng
  /\ store_ops' = c.sto
  /\ step_results' = step_results \o c.res
  /\ n_steps' = n_steps + Len(c.res)
  /\ action' = act
  /\ rerun_pending' = FALSE
  /\ UNCHANGED <<used_ids, resumed, base_steps, cacheVars>>

\* A run of the script with no widget activated: the rerun a trigger or a
\* load asked for, or a rerun the user asks for.
Render ==
  IF AwaitingTrigger(session_data)
  THEN Commit(Ctx(session_data, store), "render")
  ELSE \E co \in ClassifyOutcomesOf(session_data) :
       \E p1 \in WriteOutcomesAfter(co) :
         Commit(RunThought(session_data, store, FALSE, co, p1, <<>>, "err"),
                "render")

\* A run with "Continue thought chain" clicked. The button is drawn at line
\* 155 only, so the last run got there: the chain is triggered and classified.
Continue ==
  /\ ~rerun_pending
  /\ ~AwaitingTrigger(session_data)
  /\ session_data.new_thought # <<>>
  /\ \E co \in ClassifyOutcomesOf(session_data), so \in StepOutcomesNow :
     \E p1 \in WriteOutcomesAfter(co), p2 \in WriteOutcomesAfter(so) :
       Commit(RunThought(session_data, store, TRUE, co, p1, so, p2),
              "continue")

\* A run with the "New thought" form submitted (lines 90-94). The form is
\* drawn on the awaiting page only.
Trigger ==
  /\ ~rerun_pending
  /\ AwaitingTrigger(session_data)
  /\ \E model \in Models :
       session_data' = trigger_chain_of_thought(session_data, model)
  /\ rerun_pending' = TRUE
  /\ action' = "trigger"
  /\ engine_ops' = <<>>
  /\ store_ops' = <<>>
  /\ UNCHANGED <<store, used_ids, resumed, base_steps, step_results, n_steps,
                 cacheVars>>

\* init_session for a session with no record in memory: the stored record
\* of the requested id when there is one, a fresh record otherwise.
init_session(id, st) == IF id \in DOMAIN st THEN st[id] ELSE Fresh(id)

Bind(s, wasStored) ==
  /\ session_data' = s
  /\ used_ids' = used_ids \cup {s.session_id}
  /\ resumed' = wasStored
  /\ base_steps' = s.this_thought_responses
  /\ step_results' = <<>>
  /\ engine_ops' = <<>>
  /\ store_ops' = <<>>
  /\ UNCHANGED <<store, n_steps, cacheVars>>

\* "Load specific thought" / "Select specific thought" (lines 97-110):
\* clear_session, s=<id>, rerun; the rerun's init_session binds the id.
Load ==
  /\ ~rerun_pending
  /\ AwaitingTrigger(session_data)
  /\ \E id \in Ids : Bind(init_session(id, store), id \in DOMAIN store)
  /\ rerun_pending' = TRUE
  /\ action' = "load"

\* _clear_thought ("Clear thought", "Clear session data"): clear_session,
\* s="", and the run that follows binds a record with a generated id.
NewId == CHOOSE i \in Ids \ used_ids : \A j \in Ids \ used_ids : i <= j

Clear ==
  /\ ~rerun_pending
  /\ Ids \ used_ids # {}
  /\ Bind(Fresh(NewId), FALSE)
  /\ rerun_pending' = FALSE
  /\ action' = "clear"

SessionInit ==
  /\ session_data = Fresh(1)
  /\ store = << >>
  /\ used_ids = {1}
  /\ rerun_pending = FALSE
  /\ engine_ops = <<>>
  /\ store_ops = <<>>
  /\ resumed = FALSE
  /\ base_steps = <<>>
  /\ step_results = <<>>
  /\ n_steps = 0

CacheIdle ==
  /\ now = 0
  /\ incomplete = {}
  /\ completed = <<>>
  /\ cache = [k \in {} |-> <<>>]
  /\ ret = <<>>
  /\ queried = FALSE
  /\ call_key = <<"none", 0>>

Init == SessionInit /\ CacheIdle /\ action = "init"

Next == Trigger \/ Render \/ Continue \/ Load \/ Clear

Spec == Init /\ [][Next]_vars

\* A session directory that already holds the record of a finished chain,
\* and a browser opened on it (?s=1): init_session binds the stored record.
\* The record is the one the script writes for a chain of one step, with
\* the thought_complete field of the data model set.
CompletedRecord ==
  LET k == [response_type |-> "REFLECT", rationale |-> "R1"]
      c == RunThought(trigger_chain_of_thought(Fresh(1), "gpt-4"), << >>,
                      TRUE, <<k>>, "ok", <<"final">>, "ok")
  IN [c.s EXCEPT !.thought_complete = TRUE]

ResumeInit ==
  /\ store = [i \in {1} |-> CompletedRecord]
  /\ session_data = init_session(1, store)
  /\ used_ids = {1}
  /\ rerun_pending = FALSE
  /\ engine_ops = <<>>
  /\ store_ops = <<>>
  /\ resumed = TRUE
  /\ base_steps = session_data.this_thought_responses
  /\ step_results = <<>>
  /\ n_steps = 0
  /\ CacheIdle
  /\ action = "init"

SpecResume == ResumeInit /\ [][Next]_vars

\* ------------------------------------------------- the listing cache

Min(a, b) == IF a < b THEN a ELSE b

RECURSIVE SortedSeq(_)
SortedSeq(S) ==
  IF S = {} THEN <<>>
  ELSE LET m == CHOOSE x \in S : \A y \in S : x <= y
       IN <<m>> \o SortedSeq(S \ {m})

\* ThoughtMemory.list_recently_completed_thoughts(num): the num most
\* recently completed thoughts.
list_recently_completed_thoughts(num) ==
  SubSeq(completed, 1, Min(num, Len(completed)))

\* ThoughtMemory.list_incomplete_thoughts(): every thought not completed.
list_incomplete_thoughts == SortedSeq(incomplete)

\* What a listing call computes from the memory table when it runs.
Listing(key) ==
  IF key[1] = "recent" THEN list_recently_completed_thoughts(key[2])
  ELSE list_incomplete_thoughts

\* A faulty key: the arguments are left out.
BadKeyIgnoresArgs(fn, arg) == <<fn, 0>>

\* st.cache_data keys an entry by the function and its arguments.
CacheKey(fn, arg) == <<fn, arg>>

\* A faulty expiry: an entry is served forever.
BadNeverExpires(entry, t) == TRUE

\* ttl=timedelta(seconds=5): an entry is served until it is TTL seconds old.
CacheFresh(entry, t) == t - entry.computed_at < TTL

\* A call of a function under @st.cache_data(ttl=...).
CachedCall(fn, arg) ==
  LET k == CacheKey(fn, arg) IN
  /\ call_key' = <<fn, arg>>
  /\ IF k \in DOMAIN cache /\ CacheFresh(cache[k], now)
     THEN /\ ret' = cache[k].value
          /\ queried' = FALSE
          /\ cache' = cache
     ELSE LET v == Listing(<<fn, arg>>) IN
          /\ ret' = v
          /\ queried' = TRUE
          /\ cache' = [j \in DOMAIN cache \cup {k} |->
                         IF j = k THEN [value |-> v, computed_at |-> now]
                         ELSE cache[j]]
  /\ UNCHANGED <<now, incomplete, completed, sessVars>>

\* list_recent_thoughts(num) -> _list_recent_thoughts(num)
ListRecent ==
  /\ \E num \in Nums : CachedCall("recent", num)
  /\ action' = "list_recent"

\* list_incomplete_thoughts() -> _list_incomplete_thoughts()
ListIncomplete ==
  /\ CachedCall("incomplete", 0)
  /\ action' = "list_incomplete"

\* An action that calls no listing.
NoCall ==
  /\ ret' = <<>>
  /\ queried' = FALSE
  /\ call_key' = <<"none", 0>>

\* Time passes.
Tick ==
  /\ now < MaxTime
  /\ now' = now + 1
  /\ action' = "tick"
  /\ NoCall
  /\ UNCHANGED <<incomplete, completed, cache, sessVars>>

\* Another writer starts a thought in the memory table; it gets the next id.
AddThought ==
  /\ Cardinality(incomplete) + Len(completed) < MaxThoughts
  /\ incomplete' = incomplete \cup {Cardinality(incomplete) + Len(completed) + 1}
  /\ action' = "add_thought"
  /\ NoCall
  /\ UNCHANGED <<now, completed, cache, sessVars>>

\* Another writer completes a thought.
CompleteThought ==
  /\ \E id \in incomplete :
       /\ incomplete' = incomplete \ {id}
       /\ completed' = <<id>> \o completed
  /\ action' = "complete_thought"
  /\ NoCall
  /\ UNCHANGED <<now, cache, sessVars>>

CacheNext == ListRecent \/ ListIncomplete \/ Tick \/ AddThought \/ CompleteThought

SpecCache == Init /\ [][CacheNext]_vars

\* ------------------------------------------------------------ properties

\* The step binds another record to the session (load by id, clear).
Rebind == action' \in {"load", "clear"}

Made(ops, op) == \E i \in 1..Len(ops) : ops[i] = op

IsPrefix(a, b) == Len(a) <= Len(b) /\ SubSeq(b, 1, Len(a)) = a

\* C1: once the kickoff (new_thought) of the bound record is set, also on a
\* record resumed from the store, no run of the script calls classify
\* (get_new_thought_type) again and the kickoff keeps its value; so classify
\* returns at most once for a record, and only while its kickoff is unset.
C1_ClassifyAtMostOnce ==
  [][ (~Rebind /\ session_data.new_thought # <<>>) =>
        /\ session_data'.new_thought = session_data.new_thought
        /\ ~Made(engine_ops', "classify_ok")
        /\ ~Made(engine_ops', "classify_err") ]_vars

\* A record resumed from the store with its kickoff set has been rendered,
\* and the run made no engine call.
C1_Witness ==
  /\ resumed
  /\ action = "render"
  /\ session_data.new_thought # <<>>
  /\ engine_ops = <<>>

\* C2: after a continue whose engine call returned a terminal step kind, the
\* record's thought_complete flag is true and its status is "complete".
C2_TerminalStepCompletes ==
  ( /\ action = "continue"
    /\ Made(engine_ops, "step_ok")
    /\ session_data.this_thought_responses # <<>>
    /\ session_data.this_thought_responses[
         Len(session_data.this_thought_responses)] \in TerminalKinds )
  => ( /\ session_data.thought_complete
       /\ get_thought_status(session_data) = "complete" )

C4_StepsMatchCalls ==
  /\ [](session_data.this_thought_responses = base_steps \o step_results)
  /\ [][ ~Rebind =>
           IF Made(engine_ops', "step_ok")
           THEN /\ step_results' # <<>>
                /\ Len(step_results') = Len(step_results) + 1
                /\ session_data'.this_thought_responses =
                     Append(session_data.this_thought_responses,
                            step_results'[Len(step_results')])
           ELSE /\ step_results' = step_results
                /\ session_data'.this_thought_responses =
                     session_data.this_thought_responses ]_vars

\* Two calls have succeeded with different results and the last one failed.
C4_Witness ==
  /\ Len(step_results) = 2
  /\ step_results[1] # step_results[2]
  /\ Made(engine_ops, "step_err")

\* C5: after a classify call that raised, the record is flagged errored, has
\* no steps, and is in the store.
C5_ClassifyFailureErrors ==
  Made(engine_ops, "classify_err") =>
    /\ session_data.thought_had_error
    /\ session_data.this_thought_responses = <<>>
    /\ session_data.session_id \in DOMAIN store

\* C6: once a chain is triggered, after every run that asks for no rerun and
\* whose writes succeeded the store holds the in-memory record under the
\* session's id.
C6_StoreHoldsRecord ==
  ( /\ session_data.trigger_new_thought
    /\ ~rerun_pending
    /\ ~Made(store_ops, "err") ) =>
    /\ session_data.session_id \in DOMAIN store
    /\ store[session_data.session_id] = session_data

\* C7: a run whose persistence write failed leaves the in-memory record as
\* it was before the run.
C7_NoPartialCommit ==
  [][ Made(store_ops', "err") => session_data' = session_data ]_vars

\* C8: a listing call made while the entry of its function and arguments is
\* less than TTL seconds old returns the entry's value, does not read the
\* memory table and changes no entry; any other call reads the table, returns
\* its current listing and stores it with the current time; the entries of
\* the other keys are never touched.
C8_CacheWindow ==
  [][ (action' \in {"list_recent", "list_incomplete"}) =>
        LET k == call_key' IN
        IF k \in DOMAIN cache /\ now - cache[k].computed_at < TTL
        THEN /\ ret' = cache[k].value
             /\ ~queried'
             /\ cache' = cache
        ELSE /\ queried'
             /\ ret' = Listing(k)
             /\ DOMAIN cache' = DOMAIN cache \cup {k}
             /\ cache'[k] = [value |-> Listing(k), computed_at |-> now]
             /\ \A j \in DOMAIN cache \ {k} : cache'[j] = cache[j] ]_vars

\* A call was served from the cache although the memory table has changed
\* since, while the other argument's entry is older and holds another value.
C8_Witness ==
  /\ action = "list_recent"
  /\ ~queried
  /\ ret # Listing(call_key)
  /\ \E n \in Nums :
       /\ <<"recent", n>> \in DOMAIN cache
       /\ <<"recent", n>> # call_key
       /\ cache[<<"recent", n>>].computed_at # cache[call_key].computed_at
       /\ cache[<<"recent", n>>].value # ret

\* A call after the window has expired recomputed the entry.
C8_WitnessExpired ==
  /\ action = "list_incomplete"
  /\ queried
  /\ now >= TTL
  /\ ret # <<>>

\* C9: while trigger_new_thought is false no run calls the engine or changes
\* the kickoff, the steps or the status log; the flag of a bound record turns
\* true only by the trigger form, which records the chosen model and leaves
\* the kickoff unset; while the flag is true no trigger is issued and the
\* model is kept.
C9_AwaitingTrigger ==
  [][ /\ ~session_data.trigger_new_thought =>
           /\ engine_ops' = <<>>
           /\ ~Rebind =>
                /\ session_data'.new_thought = session_data.new_thought
                /\ session_data'.this_thought_responses =
                     session_data.this_thought_responses
                /\ session_data'.thought_status_msgs =
                     session_data.thought_status_msgs
                /\ session_data'.trigger_new_thought =>
                     /\ action' = "trigger"
                     /\ session_data'.thought_model \in Models
                     /\ session_data'.new_thought = <<>>
      /\ (session_data.trigger_new_thought /\ ~Rebind) =>
           /\ action' # "trigger"
           /\ session_data'.trigger_new_thought
           /\ session_data'.thought_model = session_data.thought_model ]_vars

\* The form was submitted with gpt-4: the chain is triggered, unclassified.
C9_Witness ==
  /\ action = "trigger"
  /\ session_data.trigger_new_thought
  /\ session_data.thought_model = "gpt-4"
  /\ session_data.new_thought = <<>>

\* C10: after a run of the script on a triggered record the status log holds
\* the two initiation messages, one message if the kickoff is set and one
\* message per step; the log of a bound record only grows.
C10_StatusLogCount ==
  /\ []( (session_data.trigger_new_thought /\ ~rerun_pending) =>
           Len(session_data.thought_status_msgs) =
             2 + (IF session_data.new_thought # <<>> THEN 1 ELSE 0)
               + Len(session_data.this_thought_responses) )
  /\ [][ ~Rebind => IsPrefix(session_data.thought_status_msgs,
                             session_data'.thought_status_msgs) ]_vars

\* A record with two steps was resumed from the store and rendered again:
\* its log holds five messages.
C10_Witness ==
  /\ resumed
  /\ ~rerun_pending
  /\ Len(session_data.this_thought_responses) = 2
  /\ Len(session_data.thought_status_msgs) = 5

====
